---------------------------- MODULE Spec2Model ----------------------------
(***************************************************************************)
(* Model of src/private/string_suggestion.cc (gnu-octave/pkg): the         *)
(* Norvig-style spelling corrector behind string_suggestion (word, WORDS). *)
(*                                                                         *)
(* A std::string is a sequence of character codes (ASCII), a               *)
(* std::vector<std::string> a sequence of such sequences, and a            *)
(* std::map<std::string,int> a function whose DOMAIN is its key set; the   *)
(* map's iteration order is the lexicographic order of its keys.           *)
(*                                                                         *)
(* Two specifications:                                                     *)
(*   Spec         the oct-file as Octave runs it: the global dictionary    *)
(*                starts empty and string_suggestion is called repeatedly  *)
(*                (every entry then has weight 1);                         *)
(*   SpecCorrect  the functions correct, edits and known applied once to   *)
(*                inputs drawn from bounded sets: a dictionary of the      *)
(*                map's type, with arbitrary weights, and a word.          *)
(***************************************************************************)
EXTENDS Integers, Sequences, FiniteSets, TLC

VARIABLES
  dictionary,   \* the global std::map<std::string,int> dictionary
  word,         \* the word argument of the last call
  WORDS,        \* the cell argument of the last string_suggestion call
  op,           \* what ran last: "init", "string_suggestion", "correct", "edits", "known"
  status,       \* "ok", or how the call ended without returning
  ret,          \* the string the last call returned
  tier,         \* which return statement of correct was taken (1..4), 0 if none
  result,       \* correct's local vector `result` (edits' `results` for an edits call)
  candidates,   \* correct's local map `candidates` when the call ended
  accAtTier3,   \* `candidates` when the tier-3 loop was entered
  tier3Entered, \* whether the tier-3 loop was entered
  editsCalls,   \* how many times edits was called
  accBefore,    \* `candidates` as handed to a direct call of known
  calls         \* how many times string_suggestion has been called

vars == <<dictionary, word, WORDS, op, status, ret, tier, result, candidates,
          accAtTier3, tier3Entered, editsCalls, accBefore, calls>>

----------------------------------------------------------------------------
(* Bounds of the model *)

\* longest word handed to correct and to string_suggestion
MaxLen == 2
\* longest word handed to edits alone
MaxEditLen == 3
\* largest weight of a dictionary entry in SpecCorrect
MaxWeight == 2
\* longest WORDS cell handed to string_suggestion
MaxCell == 1
\* calls of string_suggestion in one Octave session
MaxCalls == 2

\* 'a' and 'z', the ends of the alphabet loop
FirstLetter == 97
LastLetter == 122

\* characters input words are made of: 'a', 'b'
Chars == {97, 98}
\* the strings dictionary keys are drawn from: "", "b", "aa"
Vocabulary == {<<>>, <<98>>, <<97, 97>>}

Words == UNION {[1..n -> Chars] : n \in 0..MaxLen}
EditWords == UNION {[1..n -> Chars] : n \in 0..MaxEditLen}
EmptyMap == <<>>
Range(s) == {s[i] : i \in DOMAIN s}

----------------------------------------------------------------------------
(* std::string helpers *)

\* word.substr(0, n)
substrTo(w, n) == SubSeq(w, 1, n)
\* word.substr(pos), defined for pos <= size()
substrFrom(w, pos) == SubSeq(w, pos + 1, Len(w))

\* std::string operator< : the order of the map's keys
LexLess(a, b) ==
  LET m == IF Len(a) < Len(b) THEN Len(a) ELSE Len(b) IN
    \/ \E i \in 1..m : a[i] < b[i] /\ \A h \in 1..(i - 1) : a[h] = b[h]
    \/ Len(a) < Len(b) /\ \A h \in 1..m : a[h] = b[h]

\* the keys of a map in iteration order
RECURSIVE MapOrder(_)
MapOrder(S) ==
  IF S = {} THEN <<>>
  ELSE LET first == CHOOSE x \in S : \A y \in S \ {x} : LexLess(x, y)
       IN <<first>> \o MapOrder(S \ {first})

----------------------------------------------------------------------------
(* sortBySecond and std::max_element *)

\* a map element is the pair <<key, weight>>
sortBySecondReversed(left, right) == left[2] > right[2]
sortBySecondOrEqual(left, right) == left[2] <= right[2]
sortBySecond(left, right) == left[2] < right[2]

\* std::max_element (first, last, comp): `largest` moves only to an element
\* that comp ranks strictly above it, so the first of the largest is returned
RECURSIVE MaxElementLoop(_, _, _, _)
MaxElementLoop(order, m, largest, i) ==
  IF i > Len(order) THEN largest
  ELSE IF sortBySecond(<<largest, m[largest]>>, <<order[i], m[order[i]]>>)
       THEN MaxElementLoop(order, m, order[i], i + 1)
       ELSE MaxElementLoop(order, m, largest, i + 1)

\* max_element (candidates.begin (), candidates.end (), sortBySecond)->first,
\* called on a non-empty map
max_element(m) ==
  LET order == MapOrder(DOMAIN m) IN MaxElementLoop(order, m, order[1], 2)

----------------------------------------------------------------------------
(* edits *)

\* std::string::size_type is unsigned and 64 bits wide: size() - 1 wraps to
\* 2^64 - 1 for the empty string.  TLC's integers end below 2^31, so 2^30
\* stands for 2^64; the transposition loop looks at its bound only to
\* compare it with i.
SizeModulus == 1073741824
sizeMinusOne(w) == (Len(w) - 1) % SizeModulus

\* for (i = 0; i < word.size(); i++)
\*   results.push_back(word.substr(0, i) + word.substr(i + 1));
Deletions(w) ==
  [i \in 1..Len(w) |-> substrTo(w, i - 1) \o substrFrom(w, i)]

\* for (i = 0; i < word.size() - 1; i++)
\*   results.push_back(word.substr(0, i) + word[i + 1] + word[i] + word.substr(i + 2));
\* i is 0-based.  word.substr(i + 2) throws std::out_of_range when
\* i + 2 > size(); word[i + 1] is then out of bounds as well.
RECURSIVE TranspositionLoop(_, _, _, _)
TranspositionLoop(w, i, bound, results) ==
  IF ~(i < bound) THEN [results |-> results, raised |-> FALSE]
  ELSE IF i + 2 > Len(w) THEN [results |-> results, raised |-> TRUE]
  ELSE TranspositionLoop(w, i + 1, bound,
         Append(results, substrTo(w, i) \o <<w[i + 2], w[i + 1]>> \o substrFrom(w, i + 2)))

\* for (i = 0; i < word.size(); i++)
\*   results.push_back(word.substr(0, i) + j + word.substr(i + 1));
Alterations(w, j) ==
  [i \in 1..Len(w) |-> substrTo(w, i - 1) \o <<j>> \o substrFrom(w, i)]

\* for (i = 0; i < word.size() + 1; i++)
\*   results.push_back(word.substr(0, i) + j + word.substr(i));
InsertionsOffByOne(w, j) ==
  [i \in 1..Len(w) |-> substrTo(w, i - 1) \o <<j>> \o substrFrom(w, i - 1)]
Insertions(w, j) ==
  [i \in 1..(Len(w) + 1) |-> substrTo(w, i - 1) \o <<j>> \o substrFrom(w, i - 1)]

\* for (char j = 'a'; j <= 'z'; ++j) { Alterations; Insertions }
RECURSIVE LetterLoop(_, _, _)
LetterLoop(w, j, results) ==
  IF ~(j <= LastLetter) THEN results
  ELSE LetterLoop(w, j + 1, results \o Alterations(w, j) \o Insertions(w, j))

\* void edits (word, results): what it appended to `results`, and whether it
\* left by an exception instead of returning
edits(w, results) ==
  LET t == TranspositionLoop(w, 0, sizeMinusOne(w), results \o Deletions(w)) IN
    IF t.raised THEN [results |-> t.results, raised |-> TRUE]
    ELSE [results |-> LetterLoop(w, FirstLetter, t.results), raised |-> FALSE]

----------------------------------------------------------------------------
(* known *)

\* void known (results, candidates): every results[i] that dictionary.find
\* finds is written into candidates with the dictionary's weight.  The
\* value written does not depend on i, so the loop is given in closed form.
\* The dictionary is a global the function can reach: it is returned too.
knownSubscript(results, cands, dict) ==
  LET all == Range(results)
      grown == [k \in DOMAIN dict \cup all |-> IF k \in DOMAIN dict THEN dict[k] ELSE 0]
  IN [candidates |-> [k \in DOMAIN cands \cup all |->
                        IF k \in all THEN grown[k] ELSE cands[k]],
      dictionary |-> grown]
known(results, cands, dict) ==
  LET found == {k \in DOMAIN dict : \E i \in DOMAIN results : results[i] = k}
  IN [candidates |-> [k \in DOMAIN cands \cup found |->
                        IF k \in found THEN dict[k] ELSE cands[k]],
      dictionary |-> dict]

----------------------------------------------------------------------------
(* correct *)

\* if (dictionary.find (word) != dictionary.end ()) return word;
exactMatchNever(w, dict) == FALSE
exactMatch(w, dict) == w \in DOMAIN dict

\* if (candidates.size () > 0) return max_element (...)->first;   after tier 2
tier2Never(cands) == FALSE
tier2Found(cands) == Cardinality(DOMAIN cands) > 0

\* if (candidates.size () > 0) return max_element (...)->first;   after tier 3
tier3Found(cands) == Cardinality(DOMAIN cands) > 0

\* what a call of correct leaves behind
Outcome(r, raised, t, res, cands, acc3, entered, nEdits, dict) ==
  [ret |-> r, raised |-> raised, tier |-> t, result |-> res, candidates |-> cands,
   accAtTier3 |-> acc3, tier3Entered |-> entered, editsCalls |-> nEdits,
   dictionary |-> dict]

\* one iteration of the tier-3 loop, given what edits (result[i], subResult)
\* did: known (subResult, candidates), unless edits raised.  known only adds
\* entries to the accumulator or overwrites them with the dictionary's weight,
\* so the iteration's contribution is computed on an empty map and merged in
\* by Tier3Merge.
Tier3Step(e, dict) ==
  IF e.raised
  THEN [raised |-> TRUE, candidates |-> EmptyMap, dictionary |-> dict]
  ELSE [raised |-> FALSE] @@ known(e.results, EmptyMap, dict)

\* every iteration i of the loop with its outcome (result[i] and edits of it
\* are evaluated once for each i)
Tier3Steps(res, dict) ==
  UNION {{<<r[1], Tier3Step(e, dict)>> : e \in {edits(r[2], <<>>)}} :
           r \in {<<n, res[n]>> : n \in DOMAIN res}}

\* the loop's effect: the iterations before the first one that raises are
\* done; `calls` counts the calls of edits made; the dictionary is the one
\* the last call of known left
Tier3Merge(step, cands, dict) ==
  LET raisedAt == {p[1] : p \in {q \in step : q[2].raised}}
      done == {p \in step : \A n \in raisedAt : p[1] < n}
      found == UNION {DOMAIN p[2].candidates : p \in done}
      last == CHOOSE p \in done : \A q \in done : q[1] <= p[1]
  IN [raised |-> raisedAt # {},
      calls |-> Cardinality(done) + (IF raisedAt # {} THEN 1 ELSE 0),
      candidates |-> [k \in DOMAIN cands \cup found |->
                        IF k \in found
                        THEN (CHOOSE p \in done : k \in DOMAIN p[2].candidates)[2].candidates[k]
                        ELSE cands[k]],
      dictionary |-> IF done = {} THEN dict ELSE last[2].dictionary]

\* the one element of a singleton: Value ({F (x) : x \in {e}}) is F (e) with
\* e evaluated once
Value(S) == CHOOSE x \in S : TRUE

\* for (i = 0; i < result.size (); i++)
\*   { subResult = {}; edits (result[i], subResult); known (subResult, candidates); }
Tier3Loop(res, cands, dict) ==
  Value({Tier3Merge(step, cands, dict) : step \in {Tier3Steps(res, dict)}})

\* the end of correct, after the tier-3 loop (t3):
\*   if (candidates.size () > 0) return max_element (...)->first;
\*   return "";
tier3Return(e1, k1, t3) ==
  IF t3.raised
  THEN Outcome(<<>>, TRUE, 0, e1.results, t3.candidates, k1.candidates, TRUE,
               1 + t3.calls, t3.dictionary)
  ELSE IF tier3Found(t3.candidates)
  THEN Outcome(max_element(t3.candidates), FALSE, 3, e1.results, t3.candidates,
               k1.candidates, TRUE, 1 + t3.calls, t3.dictionary)
  ELSE Outcome(<<>>, FALSE, 4, e1.results, t3.candidates, k1.candidates, TRUE,
               1 + t3.calls, t3.dictionary)

\* correct after known (result, candidates) (k1):
\*   if (candidates.size () > 0) return max_element (...)->first;
\*   then the tier-3 loop
tier2Return(e1, k1) ==
  IF tier2Found(k1.candidates)
  THEN Outcome(max_element(k1.candidates), FALSE, 2, e1.results, k1.candidates,
               EmptyMap, FALSE, 1, k1.dictionary)
  ELSE Value({tier3Return(e1, k1, t3) :
                t3 \in {Tier3Loop(e1.results, k1.candidates, k1.dictionary)}})

\* correct after edits (word, result) (e1): known (result, candidates),
\* unless edits raised
afterEdits(e1, dict) ==
  IF e1.raised
  THEN Outcome(<<>>, TRUE, 0, e1.results, EmptyMap, EmptyMap, FALSE, 1, dict)
  ELSE Value({tier2Return(e1, k1) : k1 \in {known(e1.results, EmptyMap, dict)}})

\* std::string correct (const std::string& word), reading the global dictionary
correct(w, dict) ==
  IF exactMatch(w, dict)
  THEN Outcome(w, FALSE, 1, <<>>, EmptyMap, EmptyMap, FALSE, 0, dict)
  ELSE Value({afterEdits(e1, dict) : e1 \in {edits(w, <<>>)}})

\* How a call that does not return ends.  edits on the empty string evaluates
\* word[1] (out of bounds: undefined behaviour, an abort in a hardened
\* libstdc++) and word.substr (2) (throws std::out_of_range), in an order the
\* compiler picks.
Failures == {"out_of_range", "abort"}

----------------------------------------------------------------------------
(* SpecCorrect: correct, edits and known applied to drawn inputs *)

\* every std::map<std::string,int> over the vocabulary with weights 1..MaxWeight
Dictionaries == UNION {[K -> 1..MaxWeight] : K \in SUBSET Vocabulary}

InitCorrect ==
  /\ dictionary \in Dictionaries
  /\ word \in Words \cup EditWords
  /\ WORDS = <<>>
  /\ op = "init"
  /\ status = "ok"
  /\ ret = <<>>
  /\ tier = 0
  /\ result = <<>>
  /\ candidates = EmptyMap
  /\ accAtTier3 = EmptyMap
  /\ tier3Entered = FALSE
  /\ editsCalls = 0
  /\ accBefore = EmptyMap
  /\ calls = 0

\* correct (word) on the drawn dictionary
CallCorrect ==
  /\ op = "init"
  /\ Len(word) <= MaxLen
  /\ \E c \in {correct(word, dictionary)} :
       /\ \E f \in Failures : status' = IF c.raised THEN f ELSE "ok"
       /\ ret' = c.ret
       /\ tier' = c.tier
       /\ result' = c.result
       /\ candidates' = c.candidates
       /\ accAtTier3' = c.accAtTier3
       /\ tier3Entered' = c.tier3Entered
       /\ editsCalls' = c.editsCalls
       /\ dictionary' = c.dictionary
  /\ op' = "correct"
  /\ UNCHANGED <<word, WORDS, accBefore, calls>>

\* edits (word, results) on an empty results vector
CallEdits ==
  /\ op = "init"
  /\ Len(word) <= MaxEditLen
  /\ \E e \in {edits(word, <<>>)} :
       /\ \E f \in Failures : status' = IF e.raised THEN f ELSE "ok"
       /\ result' = e.results
  /\ editsCalls' = 1
  /\ op' = "edits"
  /\ UNCHANGED <<dictionary, word, WORDS, ret, tier, candidates, accAtTier3,
                 tier3Entered, accBefore, calls>>

\* known (results, candidates) on the edits of the word (none if edits
\* raises) and an accumulator that already holds some dictionary entries
CallKnown ==
  /\ op = "init"
  /\ Len(word) <= MaxLen
  /\ \E K \in SUBSET DOMAIN dictionary, res \in {edits(word, <<>>).results} :
       \E k \in {known(res, [x \in K |-> dictionary[x]], dictionary)} :
          /\ accBefore' = [x \in K |-> dictionary[x]]
          /\ result' = res
          /\ candidates' = k.candidates
          /\ dictionary' = k.dictionary
  /\ op' = "known"
  /\ UNCHANGED <<word, WORDS, status, ret, tier, accAtTier3, tier3Entered, editsCalls,
                 calls>>

NextCorrect == CallEdits \/ CallKnown \/ CallCorrect

SpecCorrect == InitCorrect /\ [][NextCorrect]_vars

----------------------------------------------------------------------------
(* Spec: the oct-file, called again and again in one Octave session *)

\* the cell arrays handed in as WORDS
Cells == UNION {[1..n -> Vocabulary] : n \in 0..MaxCell}
\* args.length ()
Nargins == {1, 2, 3}

\* for (i = 0; i < c.numel (); i++) dictionary[c(i).string_value ()] = 1;
RECURSIVE FillDictionary(_, _, _)
FillDictionary(dict, c, i) ==
  IF ~(i <= Len(c)) THEN dict
  ELSE FillDictionary([k \in DOMAIN dict \cup {c[i]} |-> IF k = c[i] THEN 1 ELSE dict[k]],
                      c, i + 1)

\* the library is loaded: the global map is empty
Init ==
  /\ dictionary = EmptyMap
  /\ word = <<>>
  /\ WORDS = <<>>
  /\ op = "init"
  /\ status = "ok"
  /\ ret = <<>>
  /\ tier = 0
  /\ result = <<>>
  /\ candidates = EmptyMap
  /\ accAtTier3 = EmptyMap
  /\ tier3Entered = FALSE
  /\ editsCalls = 0
  /\ accBefore = EmptyMap
  /\ calls = 0

\* DEFUN_DLD (string_suggestion, args, nargout, ...)
string_suggestion(nargin, w, c) ==
  /\ calls < MaxCalls
  /\ calls' = calls + 1
  /\ op' = "string_suggestion"
  /\ accBefore' = EmptyMap
  /\ IF nargin # 2
     THEN \* print_usage () raises an Octave error
          /\ status' = "print_usage"
          /\ ret' = <<>>
          /\ tier' = 0
          /\ result' = <<>>
          /\ candidates' = EmptyMap
          /\ accAtTier3' = EmptyMap
          /\ tier3Entered' = FALSE
          /\ editsCalls' = 0
          /\ UNCHANGED <<dictionary, word, WORDS>>
     ELSE /\ word' = w
          /\ WORDS' = c
          /\ \E r \in {correct(w, FillDictionary(dictionary, c, 1))} :
               /\ \E f \in Failures : status' = IF r.raised THEN f ELSE "ok"
               /\ ret' = r.ret
               /\ tier' = r.tier
               /\ result' = r.result
               /\ candidates' = r.candidates
               /\ accAtTier3' = r.accAtTier3
               /\ tier3Entered' = r.tier3Entered
               /\ editsCalls' = r.editsCalls
               /\ dictionary' = r.dictionary

Next == \E nargin \in Nargins, w \in Words, c \in Cells : string_suggestion(nargin, w, c)

Spec == Init /\ [][Next]_vars

----------------------------------------------------------------------------
(* What the properties below speak of *)

\* the vector edits (word, result) fills, as far as it got
Edits1(w) == edits(w, <<>>).results

\* the dictionary keys among the strings of a vector
KeysIn(res, dict) == {k \in DOMAIN dict : \E i \in DOMAIN res : res[i] = k}

\* the keys of greatest weight among K
Heaviest(K, dict) == {k \in K : \A h \in K : dict[h] <= dict[k]}

\* the first place of string s in a vector that holds it
FirstIndex(res, s) == CHOOSE i \in DOMAIN res : res[i] = s /\ \A h \in 1..(i - 1) : res[h] # s

\* the four edit operations, character by character
Alphabet == FirstLetter..LastLetter
IsDeletion(w, s) ==
  /\ Len(s) = Len(w) - 1
  /\ \E i \in 1..Len(w) : \A h \in 1..Len(s) : s[h] = IF h < i THEN w[h] ELSE w[h + 1]
IsTransposition(w, s) ==
  /\ Len(s) = Len(w)
  /\ \E i \in 1..(Len(w) - 1) :
        /\ s[i] = w[i + 1]
        /\ s[i + 1] = w[i]
        /\ \A h \in 1..Len(w) : h \notin {i, i + 1} => s[h] = w[h]
IsSubstitution(w, s, letter) ==
  /\ Len(s) = Len(w)
  /\ \E i \in 1..Len(w) : s[i] = letter /\ \A h \in 1..Len(w) : h # i => s[h] = w[h]
IsInsertion(w, s, letter) ==
  /\ Len(s) = Len(w) + 1
  /\ \E i \in 1..Len(s) :
        s[i] = letter /\ \A h \in 1..Len(w) : w[h] = IF h < i THEN s[h] ELSE s[h + 1]

----------------------------------------------------------------------------
(* Properties *)

\* C1: for every dictionary and every word that is a key of it, correct
\* returns the word itself, whatever the weights of the other entries, and
\* without calling edits.
C1_ExactMatchWins ==
  (op = "correct" /\ word \in DOMAIN dictionary)
    => /\ status = "ok"
       /\ ret = word
       /\ tier = 1
       /\ editsCalls = 0
       /\ result = <<>>

\* C1 happens: the word is a key, and a heavier key is one edit away
C1_Witness ==
  /\ op = "correct"
  /\ word \in DOMAIN dictionary
  /\ ret = word
  /\ word # <<>>
  /\ \E k \in KeysIn(Edits1(word), dictionary) : dictionary[k] > dictionary[word]

\* C2: correct and edits never abort or throw; edits of a string shorter
\* than 2 yields no transposition, and of the empty string exactly the 26
\* one-letter insertions.
C2_NeverAborts ==
  /\ status \in {"ok", "print_usage"}
  /\ (op = "edits" /\ Len(word) < 2)
       => result = LetterLoop(word, FirstLetter, Deletions(word))
  /\ (op = "edits" /\ word = <<>>)
       => result = [j \in 1..(LastLetter - FirstLetter + 1) |-> <<FirstLetter + j - 1>>]

C9_EditsCount ==
  (op = "edits" /\ word # <<>>)
    => LET n == Len(word)
           head == 2 * n - 1
           block == 2 * n + 1
       IN /\ status = "ok"
          /\ Len(result) = head + 26 * block
          /\ \A p \in 1..n : IsDeletion(word, result[p])
          /\ \A p \in (n + 1)..head : IsTransposition(word, result[p])
          /\ \A p \in (head + 1)..Len(result) :
                LET letter == FirstLetter + ((p - head - 1) \div block)
                    r == (p - head - 1) % block
                IN IF r < n THEN IsSubstitution(word, result[p], letter)
                   ELSE IsInsertion(word, result[p], letter)

\* C9 happens: a 3-letter word yields 187 strings
C9_Witness ==
  /\ op = "edits"
  /\ Len(word) = 3
  /\ Len(result) = 187

\* C3: the dictionary an invocation of string_suggestion uses holds exactly
\* the words of that invocation's WORDS, so the invocation's result depends
\* on its own word and WORDS alone.
C3_DictionaryFresh ==
  (op = "string_suggestion" /\ status # "print_usage")
    => /\ DOMAIN dictionary = Range(WORDS)
       /\ LET fresh == correct(word, FillDictionary(EmptyMap, WORDS, 1))
          IN ret = fresh.ret /\ (status = "ok") = ~fresh.raised

\* edits as section 4.1 describes it: no transposition for a string shorter
\* than 2
EditsTotal(w) ==
  IF Len(w) < 2 THEN LetterLoop(w, FirstLetter, Deletions(w)) ELSE Edits1(w)

\* the keys one or two edits away from the word
KeysWithin2(w, dict) ==
  KeysIn(EditsTotal(w), dict)
    \cup UNION {KeysIn(EditsTotal(EditsTotal(w)[i]), dict) : i \in DOMAIN EditsTotal(w)}

\* C4: correct returns the empty string exactly when the word is no key and
\* no key is one or two edits away; with an empty dictionary it returns the
\* empty string for every word; a non-empty result is a key.
C4_AbsentIffNoMatch ==
  op = "correct"
    => /\ status = "ok"
       /\ ret # <<>> => ret \in DOMAIN dictionary
       /\ DOMAIN dictionary = {} => ret = <<>>
       /\ ret = <<>> <=> (word \notin DOMAIN dictionary /\ KeysWithin2(word, dictionary) = {})

C8_Tier2KeysReachTier3 ==
  (op = "correct" /\ status = "ok" /\ word \notin DOMAIN dictionary
     /\ KeysIn(Edits1(word), dictionary) # {})
    => /\ tier3Entered
       /\ DOMAIN accAtTier3 = KeysIn(Edits1(word), dictionary)

\* C8 as the code has it: tier 3 is entered only with an empty accumulator,
\* and what tier 3 returns is never in edits (word).
C8_Tier3StartsEmpty ==
  (op = "correct" /\ tier3Entered)
    => /\ accAtTier3 = EmptyMap
       /\ KeysIn(Edits1(word), dictionary) = {}
       /\ tier = 3 => (ret \in DOMAIN dictionary /\ ret \notin Range(Edits1(word)))

\* C8 happens: tier 3 returns a key
C8_Witness ==
  /\ op = "correct"
  /\ tier3Entered
  /\ tier = 3
  /\ ret # <<>>
  /\ ret \in DOMAIN candidates

\* C10: known, and so correct, leaves the dictionary as it was; known adds
\* to the accumulator exactly the strings of its input that are keys, each
\* once and with its dictionary weight; a second call on the same input
\* changes nothing.
C10_KnownFrame ==
  [][/\ op' \in {"known", "correct"} => dictionary' = dictionary
     /\ op' = "known" =>
          /\ DOMAIN candidates' = DOMAIN accBefore' \cup (Range(result') \cap DOMAIN dictionary)
          /\ \A k \in DOMAIN candidates' : candidates'[k] = dictionary[k]
          /\ known(result', candidates', dictionary').candidates = candidates'
          /\ known(result', candidates', dictionary').dictionary = dictionary]_vars

\* C10 happens: known finds a key that its input holds twice, skips strings
\* that are no keys, and keeps what the accumulator held
C10_Witness ==
  /\ op = "known"
  /\ accBefore # EmptyMap
  /\ \E i, j \in DOMAIN result :
        /\ i # j
        /\ result[i] = result[j]
        /\ result[i] \in DOMAIN candidates \ DOMAIN accBefore
  /\ \E i \in DOMAIN result : result[i] \notin DOMAIN dictionary
  /\ DOMAIN accBefore \ Range(result) # {}

=============================================================================
